---------------------------- MODULE Spec2Model ----------------------------
(***************************************************************************)
(* MindFriend (src/main.py): the per-user conversation registry, the       *)
(* SQLite store (users, chat_history, moods) and the statistics computed   *)
(* from it, as a state machine.                                            *)
(*                                                                         *)
(* Handlers are coroutines of one asyncio event loop: a handler runs       *)
(* without interruption from one await to the next.  Every handler of      *)
(* main.py calls the store and the language model synchronously and has    *)
(* a single await, the final reply_text.  The command handlers are         *)
(* therefore one action each; handle_message is written as its successive  *)
(* statements, and the variable running names the handler that holds the   *)
(* event loop, so that no other handler steps between two statements that  *)
(* no await separates (YieldPoints).                                       *)
(***************************************************************************)
EXTENDS Integers, Sequences, FiniteSets, TLC

(***************************************************************************)
(* Bounds of the model.                                                    *)
(***************************************************************************)
MaxMessages == 2      \* text messages handled in one process lifetime
MaxInFlight == 2      \* handle_message coroutines in flight at once
MaxMoods == 1         \* mood rows written in one process lifetime
MaxClock == 1         \* ticks the wall clock advances in one lifetime
TicksPerDay == 4      \* clock ticks in 24 hours
MaxRows == 8          \* chat_history rows left by earlier lifetimes
MaxTimedRows == 4     \* ... when written at any cadence from any time of day
MaxMoodRows == 6      \* moods rows left by earlier lifetimes
MaxLabelledMoods == 3 \* ... when of any labels

(***************************************************************************)
(* Program constants.                                                      *)
(***************************************************************************)
HistoryLimit == 5     \* get_last_chats(user.id, 5) in history
RecentMoods == 5      \* LIMIT 5 in get_mood_stats

Fallback == "I'm sorry, I couldn't process that right now. Please try again later."
Persona == "You are a supportive, empathetic and funny friend. Respond kindly to: "

(***************************************************************************)
(* Inputs.                                                                 *)
(***************************************************************************)
UserIds == {1, 2}
Usernames == {"ann", "annie"}       \* a Telegram account may be renamed
\* update.effective_user
TelegramUsers ==
    [ id : UserIds, username : Usernames, first_name : {"Ann"}, last_name : {"Lee"} ]
Texts == {"hi", "sad"}
GenTexts == {"I hear you"}          \* what the language model answers
Tokens == { <<"H">>, <<"h">> }      \* words of a /mood command, as characters
MoodArgs == { <<>>, << <<"H">> >>, << <<"h">> >>, << <<"h">>, <<"H">> >> }

VARIABLES
    user_histories,   \* user id -> reference to its ChatMessageHistory
    heap,             \* reference -> the messages of that ChatMessageHistory
    users,            \* table users, a set of rows
    chat_history,     \* table chat_history, in rowid order
    moods,            \* table moods, in rowid order
    now,              \* datetime.datetime.now(), in ticks
    tasks,            \* handle_message coroutines in flight, by arrival number
    running,          \* the coroutine holding the event loop, 0 when none
    arrivals,         \* text messages dispatched so far
    last_reply,       \* the message most recently sent with reply_text
    chat_arr,         \* history: arrival number of the message behind each row
    ctx_arr           \* history: arrival numbers of each context's exchanges

vars == << user_histories, heap, users, chat_history, moods, now, tasks,
           running, arrivals, last_reply, chat_arr, ctx_arr >>

(***************************************************************************)
(* Sequences.                                                              *)
(***************************************************************************)
RECURSIVE Reverse(_)
Reverse(s) == IF s = <<>> THEN <<>> ELSE Append(Reverse(Tail(s)), Head(s))

Take(s, n) == SubSeq(s, 1, IF n < Len(s) THEN n ELSE Len(s))

Range(s) == { s[i] : i \in DOMAIN s }

Max2(a, b) == IF a >= b THEN a ELSE b

(***************************************************************************)
(* Timestamps.  isoformat writes a time as text, most significant field    *)
(* first; SQLite's MIN and MAX compare that text; fromisoformat reads it   *)
(* back.                                                                   *)
(***************************************************************************)
isoformat(t) == << t \div TicksPerDay, t % TicksPerDay >>

fromisoformat(s) == s[1] * TicksPerDay + s[2]

TextLess(a, b) == a[1] < b[1] \/ (a[1] = b[1] /\ a[2] < b[2])


(***************************************************************************)
(* The store.  Each operation opens its own connection and catches         *)
(* sqlite3.Error; failed says that one was raised inside its try block.    *)
(* A table is the sequence of its rows in rowid order.                     *)
(***************************************************************************)
RowIds(tbl) == { tbl[i].id : i \in DOMAIN tbl }

\* INTEGER PRIMARY KEY AUTOINCREMENT: one more than the largest rowid
NextRowId(tbl) ==
    IF tbl = <<>> THEN 1
    ELSE 1 + (CHOOSE m \in RowIds(tbl) : \A k \in RowIds(tbl) : k <= m)

WhereUserMissing(tbl, user_id) == tbl

\* WHERE user_id=?
WhereUser(tbl, user_id) == SelectSeq(tbl, LAMBDA r : r.user_id = user_id)

\* ORDER BY id DESC
RECURSIVE OrderByIdDescSet(_)
OrderByIdDescSet(rows) ==
    IF rows = {} THEN <<>>
    ELSE LET top == CHOOSE r \in rows : \A q \in rows : q.id <= r.id
         IN  <<top>> \o OrderByIdDescSet(rows \ {top})

OrderByIdDesc(rows) == OrderByIdDescSet(Range(rows))

UserRow(user) ==
    [ user_id |-> user.id, username |-> user.username,
      first_name |-> user.first_name, last_name |-> user.last_name ]

save_user_replace(tbl, user, failed) ==
    IF failed THEN tbl
    ELSE { r \in tbl : r.user_id # user.id } \cup { UserRow(user) }

\* INSERT OR IGNORE INTO users: user_id is the primary key
save_user_skipped(tbl, user, failed) == tbl

save_user(tbl, user, failed) ==
    IF failed THEN tbl
    ELSE IF \E r \in tbl : r.user_id = user.id THEN tbl
    ELSE tbl \cup { UserRow(user) }

save_chat_uncommitted(tbl, user_id, message, response, t, failed) == tbl

save_chat_framed(tbl, user_id, message, response, t, failed) ==
    IF failed THEN tbl
    ELSE Append(tbl, [ id |-> NextRowId(tbl), user_id |-> user_id,
                       message |-> Persona \o message, response |-> response,
                       timestamp |-> isoformat(t) ])

save_chat_latest_only(tbl, user_id, message, response, t, failed) ==
    IF failed THEN tbl
    ELSE Append(SelectSeq(tbl, LAMBDA r : r.user_id # user_id),
                [ id |-> NextRowId(tbl), user_id |-> user_id,
                  message |-> message, response |-> response,
                  timestamp |-> isoformat(t) ])

\* INSERT INTO chat_history, stamped with the time of the call
save_chat(tbl, user_id, message, response, t, failed) ==
    IF failed THEN tbl
    ELSE Append(tbl, [ id |-> NextRowId(tbl), user_id |-> user_id,
                       message |-> message, response |-> response,
                       timestamp |-> isoformat(t) ])

\* INSERT INTO moods, stamped with the time of the call
save_mood(tbl, user_id, mood_value, t, failed) ==
    IF failed THEN tbl
    ELSE Append(tbl, [ id |-> NextRowId(tbl), user_id |-> user_id,
                       mood |-> mood_value, timestamp |-> isoformat(t) ])

ChatColumns(rows) ==
    [ i \in DOMAIN rows |->
        << rows[i].message, rows[i].response, rows[i].timestamp >> ]

MoodColumns(rows) ==
    [ i \in DOMAIN rows |-> << rows[i].mood, rows[i].timestamp >> ]

get_last_chats_unreversed(tbl, user_id, limit, failed) ==
    LET rows == IF failed THEN <<>>
                ELSE ChatColumns(Take(OrderByIdDesc(WhereUser(tbl, user_id)), limit))
    IN  rows

\* SELECT message, response, timestamp ... ORDER BY id DESC LIMIT ?; rows[::-1]
get_last_chats(tbl, user_id, limit, failed) ==
    LET rows == IF failed THEN <<>>
                ELSE ChatColumns(Take(OrderByIdDesc(WhereUser(tbl, user_id)), limit))
    IN  Reverse(rows)

(***************************************************************************)
(* A float that is a quotient of two naturals, in lowest terms.            *)
(***************************************************************************)
RECURSIVE Gcd(_, _)
Gcd(a, b) == IF b = 0 THEN a ELSE Gcd(b, a % b)

Quotient(n, d) == << n \div Gcd(n, d), d \div Gcd(n, d) >>

Zero == << 0, 1 >>

\* MIN(timestamp), MAX(timestamp): by text; NULL (here <<>>) over no rows
MinTimestamp(rows) ==
    IF rows = <<>> THEN <<>>
    ELSE LET ts == { rows[i].timestamp : i \in DOMAIN rows }
         IN  CHOOSE a \in ts : \A b \in ts : ~ TextLess(b, a)

MaxTimestamp(rows) ==
    IF rows = <<>> THEN <<>>
    ELSE LET ts == { rows[i].timestamp : i \in DOMAIN rows }
         IN  CHOOSE a \in ts : \A b \in ts : ~ TextLess(a, b)

StatsErrors == { "none", "connect", "first", "second" }

DaysAndAverageElapsed(total_msgs, lo, hi) ==
    LET d1 == fromisoformat(lo)
        d2 == fromisoformat(hi)
        days_active == Max2((d2 - d1) \div TicksPerDay, 1)
    IN  << total_msgs, days_active,
           IF days_active > 0 THEN Quotient(total_msgs, days_active) ELSE Zero >>

\* the branch of get_user_stats under "if minmax[0] and minmax[1]"
DaysAndAverage(total_msgs, lo, hi) ==
    LET d1 == fromisoformat(lo)
        d2 == fromisoformat(hi)
        days_active == Max2(((d2 - d1) \div TicksPerDay) + 1, 1)
    IN  << total_msgs, days_active,
           IF days_active > 0 THEN Quotient(total_msgs, days_active) ELSE Zero >>

\* total_msgs, days_active, avg_per_day start as 0, 0, 0.0; err is the
\* statement that raises: the connection, the COUNT or the MIN/MAX query
get_user_stats(tbl, user_id, err) ==
    LET rows == WhereUser(tbl, user_id)
        total_msgs == Len(rows)
        lo == MinTimestamp(rows)
        hi == MaxTimestamp(rows)
    IN  CASE err \in { "connect", "first" } -> << 0, 0, Zero >>
          [] err = "second" -> << total_msgs, 0, Zero >>
          [] OTHER -> IF lo # <<>> /\ hi # <<>>
                      THEN DaysAndAverage(total_msgs, lo, hi)
                      ELSE << total_msgs, 0, Zero >>

Lower(label) == [ i \in DOMAIN label |-> IF label[i] = "H" THEN "h" ELSE label[i] ]

GroupByMoodNoCase(rows) ==
    { << m, Cardinality({ i \in DOMAIN rows : Lower(rows[i].mood) = m }) >> :
        m \in { Lower(rows[i].mood) : i \in DOMAIN rows } }

\* SELECT mood, COUNT(*) ... GROUP BY mood: one row per distinct mood text
GroupByMood(rows) ==
    { << m, Cardinality({ i \in DOMAIN rows : rows[i].mood = m }) >> :
        m \in { rows[i].mood : i \in DOMAIN rows } }

\* mood_counts and recent start empty; err is the statement that raises:
\* the connection, the GROUP BY query or the recent-entries query
get_mood_stats(tbl, user_id, err) ==
    LET rows == WhereUser(tbl, user_id)
        mood_counts == IF err \in { "connect", "first" } THEN {}
                       ELSE GroupByMood(rows)
        recent == IF err # "none" THEN <<>>
                  ELSE MoodColumns(Take(OrderByIdDesc(rows), RecentMoods))
    IN  << mood_counts, Reverse(recent) >>


(***************************************************************************)
(* The session registry.  get_user_history returns the registry and the    *)
(* heap after the call, and the reference it hands back.                   *)
(***************************************************************************)
get_user_history_fresh(reg, hp, user_id) ==
    [ reg |-> (user_id :> Len(hp) + 1) @@ reg,
      heap |-> Append(hp, <<>>),
      ret |-> Len(hp) + 1 ]

get_user_history_unregistered(reg, hp, user_id) ==
    IF user_id \notin DOMAIN reg
    THEN [ reg |-> reg, heap |-> Append(hp, <<>>), ret |-> Len(hp) + 1 ]
    ELSE [ reg |-> reg, heap |-> hp, ret |-> reg[user_id] ]

get_user_history(reg, hp, user_id) ==
    IF user_id \notin DOMAIN reg
    THEN [ reg |-> (user_id :> Len(hp) + 1) @@ reg,
           heap |-> Append(hp, <<>>),
           ret |-> Len(hp) + 1 ]
    ELSE [ reg |-> reg, heap |-> hp, ret |-> reg[user_id] ]

(***************************************************************************)
(* /mood arguments: ' '.join(context.args).strip()                         *)
(***************************************************************************)
RECURSIVE Join(_)
Join(args) ==
    IF args = <<>> THEN <<>>
    ELSE IF Len(args) = 1 THEN args[1]
    ELSE args[1] \o <<" ">> \o Join(Tail(args))

RECURSIVE LStrip(_)
LStrip(s) == IF s # <<>> /\ Head(s) = " " THEN LStrip(Tail(s)) ELSE s

Strip(s) == Reverse(LStrip(Reverse(LStrip(s))))

(***************************************************************************)
(* Init: a first start, with no database file yet and an empty registry.   *)
(***************************************************************************)
NoReply == [ kind |-> "none" ]

Init ==
    /\ user_histories = <<>>
    /\ heap = <<>>
    /\ users = {}
    /\ chat_history = <<>>
    /\ moods = <<>>
    /\ now = 0
    /\ tasks = <<>>
    /\ running = 0
    /\ arrivals = 0
    /\ last_reply = NoReply
    /\ chat_arr = <<>>
    /\ ctx_arr = <<>>

Tick ==
    /\ now < MaxClock
    /\ now' = now + 1
    /\ UNCHANGED << user_histories, heap, users, chat_history, moods, tasks,
                    running, arrivals, last_reply, chat_arr, ctx_arr >>

(***************************************************************************)
(* The command handlers.  Each runs to its reply_text without an await.    *)
(***************************************************************************)
start(user, failed) ==
    /\ running = 0
    /\ users' = save_user(users, user, failed)
    /\ last_reply' = [ kind |-> "start", to |-> user, user_saved |-> ~ failed ]
    /\ UNCHANGED << user_histories, heap, chat_history, moods, now, tasks,
                    running, arrivals, chat_arr, ctx_arr >>

history_logging(user, failed, read_failed) ==
    /\ running = 0
    /\ users' = save_user(users, user, failed)
    /\ chat_history' = save_chat(chat_history, user.id, "/history", "", now, read_failed)
    /\ chat_arr' = IF read_failed THEN chat_arr ELSE Append(chat_arr, 0)
    /\ LET chats == get_last_chats(chat_history, user.id, HistoryLimit, read_failed)
       IN  last_reply' = IF chats = <<>>
                         THEN [ kind |-> "no_history", to |-> user,
                                user_saved |-> ~ failed, err |-> read_failed ]
                         ELSE [ kind |-> "history", to |-> user,
                                user_saved |-> ~ failed, err |-> read_failed,
                                body |-> chats ]
    /\ UNCHANGED << user_histories, heap, moods, now, tasks,
                    running, arrivals, ctx_arr >>

history(user, failed, read_failed) ==
    /\ running = 0
    /\ users' = save_user(users, user, failed)
    /\ LET chats == get_last_chats(chat_history, user.id, HistoryLimit, read_failed)
       IN  last_reply' = IF chats = <<>>
                         THEN [ kind |-> "no_history", to |-> user,
                                user_saved |-> ~ failed, err |-> read_failed ]
                         ELSE [ kind |-> "history", to |-> user,
                                user_saved |-> ~ failed, err |-> read_failed,
                                body |-> chats ]
    /\ UNCHANGED << user_histories, heap, chat_history, moods, now, tasks,
                    running, arrivals, chat_arr, ctx_arr >>

stats(user, failed, err) ==
    /\ running = 0
    /\ users' = save_user(users, user, failed)
    /\ last_reply' = [ kind |-> "stats", to |-> user, user_saved |-> ~ failed,
                       err |-> err,
                       body |-> get_user_stats(chat_history, user.id, err) ]
    /\ UNCHANGED << user_histories, heap, chat_history, moods, now, tasks,
                    running, arrivals, chat_arr, ctx_arr >>

mood_unvalidated(user, args, failed, write_failed) ==
    /\ running = 0
    /\ Len(moods) < MaxMoods
    /\ users' = save_user(users, user, failed)
    /\ moods' = save_mood(moods, user.id, Strip(Join(args)), now, write_failed)
    /\ last_reply' = [ kind |-> "mood_recorded", to |-> user,
                       user_saved |-> ~ failed, args |-> args,
                       saved |-> ~ write_failed,
                       body |-> Strip(Join(args)) ]
    /\ UNCHANGED << user_histories, heap, chat_history, now, tasks,
                    running, arrivals, chat_arr, ctx_arr >>

mood(user, args, failed, write_failed) ==
    /\ running = 0
    /\ args # <<>> => Len(moods) < MaxMoods
    /\ users' = save_user(users, user, failed)
    /\ LET mood_value == Strip(Join(args))
       IN  IF args # <<>>
           THEN IF mood_value # <<>>
                THEN /\ moods' = save_mood(moods, user.id, mood_value, now, write_failed)
                     /\ last_reply' = [ kind |-> "mood_recorded", to |-> user,
                                        user_saved |-> ~ failed, args |-> args,
                                        saved |-> ~ write_failed,
                                        body |-> mood_value ]
                ELSE /\ moods' = moods
                     /\ last_reply' = [ kind |-> "mood_missing", to |-> user,
                                        user_saved |-> ~ failed, args |-> args ]
           ELSE /\ moods' = moods
                /\ last_reply' = [ kind |-> "mood_usage", to |-> user,
                                   user_saved |-> ~ failed, args |-> args ]
    /\ UNCHANGED << user_histories, heap, chat_history, now, tasks,
                    running, arrivals, chat_arr, ctx_arr >>

moodstats(user, failed, err) ==
    /\ running = 0
    /\ users' = save_user(users, user, failed)
    /\ LET res == get_mood_stats(moods, user.id, err)
       IN  last_reply' = IF res[1] = {} /\ res[2] = <<>>
                         THEN [ kind |-> "no_moods", to |-> user,
                                user_saved |-> ~ failed, err |-> err ]
                         ELSE [ kind |-> "moodstats", to |-> user,
                                user_saved |-> ~ failed, err |-> err,
                                body |-> res ]
    /\ UNCHANGED << user_histories, heap, chat_history, moods, now, tasks,
                    running, arrivals, chat_arr, ctx_arr >>

(***************************************************************************)
(* handle_message, statement by statement.  YieldPoints are the places     *)
(* where the coroutine awaits and the event loop may run another handler:  *)
(* only "reply" (await update.message.reply_text), since                   *)
(* conversation.invoke and save_chat are plain calls.                      *)
(***************************************************************************)
YieldPointsAwaitingLlm == { "llm", "reply" }

YieldPoints == { "reply" }

Holder(n, pc) == IF pc \in YieldPoints THEN 0 ELSE n

MayStep(n) ==
    /\ n \in DOMAIN tasks
    /\ \/ running = n
       \/ running = 0 /\ tasks[n].pc \in YieldPoints

Raise == "raise"

\* user = update.effective_user; user_message = update.message.text;
\* save_user(user); conversation = get_conversation()
handle_message(user, text, failed) ==
    /\ running = 0
    /\ arrivals < MaxMessages
    /\ Cardinality(DOMAIN tasks) < MaxInFlight
    /\ arrivals' = arrivals + 1
    /\ users' = save_user(users, user, failed)
    /\ tasks' = (arrivals + 1 :> [ user |-> user, user_saved |-> ~ failed,
                                   user_message |-> text,
                                   pc |-> "invoke", history |-> 0,
                                   response_text |-> "", generated |-> FALSE,
                                   saved |-> FALSE, saved_at |-> 0 ]) @@ tasks
    /\ running' = Holder(arrivals + 1, "invoke")
    /\ UNCHANGED << user_histories, heap, chat_history, moods, now,
                    last_reply, chat_arr, ctx_arr >>

\* conversation.invoke, entering: RunnableWithMessageHistory asks
\* get_session_history (the lambda of get_conversation) for the session's
\* history and reads its messages into the prompt
invoke_enter(n) ==
    /\ MayStep(n)
    /\ tasks[n].pc = "invoke"
    /\ LET got == get_user_history(user_histories, heap, tasks[n].user.id)
       IN  /\ user_histories' = got.reg
           /\ heap' = got.heap
           /\ ctx_arr' = IF Len(got.heap) > Len(heap)
                         THEN Append(ctx_arr, <<>>) ELSE ctx_arr
           /\ tasks' = [ tasks EXCEPT ![n].pc = "llm", ![n].history = got.ret ]
    /\ running' = Holder(n, "llm")
    /\ UNCHANGED << users, chat_history, moods, now, arrivals, last_reply,
                    chat_arr >>

invoke_exit_recording_fallback(n, outcome) ==
    /\ MayStep(n)
    /\ tasks[n].pc = "llm"
    /\ LET answer == IF outcome = Raise THEN Fallback ELSE outcome
       IN  /\ tasks' = [ tasks EXCEPT ![n].pc = "save_chat",
                                      ![n].response_text = answer,
                                      ![n].generated = (outcome # Raise) ]
           /\ heap' = [ heap EXCEPT ![tasks[n].history] = @ \o
                         << [ type |-> "human",
                              content |-> Persona \o tasks[n].user_message ],
                            [ type |-> "ai", content |-> answer ] >> ]
           /\ ctx_arr' = [ ctx_arr EXCEPT ![tasks[n].history] = Append(@, n) ]
    /\ running' = Holder(n, "save_chat")
    /\ UNCHANGED << user_histories, users, chat_history, moods, now, arrivals,
                    last_reply, chat_arr >>

\* conversation.invoke, leaving: the model answers and the exchange (the
\* framed input, the answer) is added to the history obtained on entry, or
\* the call raises, nothing is added and the except branch sets the fallback
invoke_exit(n, outcome) ==
    /\ MayStep(n)
    /\ tasks[n].pc = "llm"
    /\ IF outcome = Raise
       THEN /\ tasks' = [ tasks EXCEPT ![n].pc = "save_chat",
                                       ![n].response_text = Fallback ]
            /\ UNCHANGED << heap, ctx_arr >>
       ELSE /\ tasks' = [ tasks EXCEPT ![n].pc = "save_chat",
                                       ![n].response_text = outcome,
                                       ![n].generated = TRUE ]
            /\ heap' = [ heap EXCEPT ![tasks[n].history] = @ \o
                          << [ type |-> "human",
                               content |-> Persona \o tasks[n].user_message ],
                             [ type |-> "ai", content |-> outcome ] >> ]
            /\ ctx_arr' = [ ctx_arr EXCEPT ![tasks[n].history] = Append(@, n) ]
    /\ running' = Holder(n, "save_chat")
    /\ UNCHANGED << user_histories, users, chat_history, moods, now, arrivals,
                    last_reply, chat_arr >>

\* save_chat(user.id, user_message, response_text)
handle_message_save(n, failed) ==
    /\ MayStep(n)
    /\ tasks[n].pc = "save_chat"
    /\ chat_history' = save_chat(chat_history, tasks[n].user.id,
                                 tasks[n].user_message, tasks[n].response_text,
                                 now, failed)
    /\ chat_arr' = IF Len(chat_history') > Len(chat_history)
                   THEN Append(chat_arr, n) ELSE chat_arr
    /\ tasks' = [ tasks EXCEPT ![n].pc = "reply", ![n].saved = ~ failed,
                                  ![n].saved_at = now ]
    /\ running' = Holder(n, "reply")
    /\ UNCHANGED << user_histories, heap, users, moods, now, arrivals,
                    last_reply, ctx_arr >>

\* await update.message.reply_text(response_text)
handle_message_reply(n) ==
    /\ MayStep(n)
    /\ tasks[n].pc = "reply"
    /\ last_reply' = [ kind |-> "message", to |-> tasks[n].user,
                       user_saved |-> tasks[n].user_saved,
                       body |-> tasks[n].response_text, arr |-> n,
                       user_message |-> tasks[n].user_message,
                       generated |-> tasks[n].generated,
                       saved |-> tasks[n].saved,
                       saved_at |-> tasks[n].saved_at ]
    /\ tasks' = [ m \in DOMAIN tasks \ {n} |-> tasks[m] ]
    /\ running' = 0
    /\ UNCHANGED << user_histories, heap, users, chat_history, moods, now,
                    arrivals, chat_arr, ctx_arr >>

Step(n) ==
    \/ invoke_enter(n)
    \/ \E outcome \in GenTexts \cup {Raise} : invoke_exit(n, outcome)
    \/ \E failed \in BOOLEAN : handle_message_save(n, failed)
    \/ handle_message_reply(n)

(***************************************************************************)
(* The conversation: text messages on a fresh database.                    *)
(***************************************************************************)
ChatNext ==
    \/ Tick
    \/ \E user \in TelegramUsers, text \in Texts, failed \in BOOLEAN :
          handle_message(user, text, failed)
    \/ \E n \in 1..MaxMessages : Step(n)

ChatSpec == Init /\ [][ChatNext]_vars

\* the event loop resumes every coroutine whose await has completed, and a
\* running coroutine runs on to its next await
ChatFair == ChatSpec /\ \A n \in 1..MaxMessages : WF_vars(Step(n))

(***************************************************************************)
(* The commands on a fresh database.                                       *)
(***************************************************************************)
CommandNext ==
    \/ Tick
    \/ \E user \in TelegramUsers, failed \in BOOLEAN :
          \/ start(user, failed)
          \/ \E read_failed \in BOOLEAN : history(user, failed, read_failed)
          \/ \E err \in StatsErrors : stats(user, failed, err)
          \/ \E args \in MoodArgs, write_failed \in BOOLEAN :
                mood(user, args, failed, write_failed)
          \/ \E err \in StatsErrors : moodstats(user, failed, err)

CommandSpec == Init /\ [][CommandNext]_vars

(***************************************************************************)
(* The queries on a database left by earlier lifetimes of the process:     *)
(* init_db creates the tables only if they do not exist, so a restart      *)
(* finds the rows written before, while the registry starts empty.  The    *)
(* chat log is that of users writing in any interleaving, one turn a tick  *)
(* or, for the shorter logs, at any steady cadence from any time of day    *)
(* on; the mood log holds any labels of any users or, for the longer logs, *)
(* alternating labels.  StoreSpec follows the first request after the      *)
(* restart.                                                                *)
(***************************************************************************)
Cadences == { 0, 1, 2 }

EarlierMessage(i) == IF i % 2 = 1 THEN "hi" ELSE "sad"

EarlierResponse(i) == IF i % 3 = 0 THEN Fallback ELSE "I hear you"

EarlierLabel(i) == IF i % 2 = 1 THEN <<"H">> ELSE <<"h">>

EarlierChats(n, owner, first, cadence) ==
    [ i \in 1..n |->
        [ id |-> i, user_id |-> owner[i], message |-> EarlierMessage(i),
          response |-> EarlierResponse(i),
          timestamp |-> isoformat(first + cadence * (i - 1)) ] ]

EarlierMoods(n, owner, label) ==
    [ i \in 1..n |->
        [ id |-> i, user_id |-> owner[i], mood |-> label[i],
          timestamp |-> isoformat(i - 1) ] ]

StoreInit ==
    /\ user_histories = <<>>
    /\ heap = <<>>
    /\ users = { UserRow(u) : u \in { v \in TelegramUsers : v.username = "ann" } }
    /\ tasks = <<>>
    /\ running = 0
    /\ arrivals = 0
    /\ last_reply = NoReply
    /\ ctx_arr = <<>>
    /\ \/ /\ moods = <<>>
          /\ \E n \in 0..MaxRows, first \in 0..(TicksPerDay - 1), cadence \in Cadences :
               /\ n <= MaxTimedRows \/ (first = 0 /\ cadence = 1)
               /\ \E owner \in [1..n -> UserIds] :
                     /\ chat_history = EarlierChats(n, owner, first, cadence)
                     /\ chat_arr = [ i \in 1..n |-> 0 ]
                     /\ now = first + cadence * n
       \/ /\ chat_history = <<>>
          /\ chat_arr = <<>>
          /\ \E n \in 1..MaxMoodRows :
               \E owner \in [1..n -> UserIds], label \in [1..n -> Tokens] :
                  /\ n <= MaxLabelledMoods \/ label = [ i \in 1..n |-> EarlierLabel(i) ]
                  /\ moods = EarlierMoods(n, owner, label)
                  /\ now = n

FirstRequest == last_reply = NoReply

StoreNext ==
    \/ \E user \in TelegramUsers, failed \in BOOLEAN, read_failed \in BOOLEAN :
          FirstRequest /\ history(user, failed, read_failed)
    \/ \E user \in TelegramUsers, failed \in BOOLEAN, err \in StatsErrors :
          FirstRequest /\ stats(user, failed, err)
    \/ \E user \in TelegramUsers, failed \in BOOLEAN, err \in StatsErrors :
          FirstRequest /\ moodstats(user, failed, err)

StoreSpec == StoreInit /\ [][StoreNext]_vars

(***************************************************************************)
(* The bot as main() builds it: ApplicationBuilder().build() leaves         *)
(* concurrent_updates off, so the dispatcher hands an update to its         *)
(* handler only when the handler of the update before has returned.  Text   *)
(* messages and all the commands, on a fresh database, from users who keep  *)
(* their name; the writes of the logs and the reads may fail.               *)
(***************************************************************************)
Idle == tasks = <<>>

Callers == { u \in TelegramUsers : u.username = "ann" }

\* a read succeeds, or fails at its last statement
BotErrors == { "none", "second" }

BotNext ==
    \/ Tick
    \/ \E user \in Callers, text \in Texts :
          Idle /\ handle_message(user, text, FALSE)
    \/ \E n \in 1..MaxMessages : Step(n)
    \/ \E user \in Callers :
          Idle /\ start(user, FALSE)
    \/ \E user \in Callers, read_failed \in BOOLEAN :
          Idle /\ history(user, FALSE, read_failed)
    \/ \E user \in Callers, err \in BotErrors :
          Idle /\ stats(user, FALSE, err)
    \/ \E user \in Callers, args \in MoodArgs, write_failed \in BOOLEAN :
          Idle /\ mood(user, args, FALSE, write_failed)
    \/ \E user \in Callers, err \in BotErrors :
          Idle /\ moodstats(user, FALSE, err)

BotSpec == Init /\ [][BotNext]_vars

(***************************************************************************)
(* The bot while the store works: no INSERT fails.  Handlers may be in     *)
(* flight together as in the conversation.                                 *)
(***************************************************************************)
SoundNext ==
    \/ Tick
    \/ \E user \in Callers, text \in Texts : handle_message(user, text, FALSE)
    \/ \E n \in 1..MaxMessages : invoke_enter(n)
    \/ \E n \in 1..MaxMessages, outcome \in GenTexts \cup {Raise} :
          invoke_exit(n, outcome)
    \/ \E n \in 1..MaxMessages : handle_message_save(n, FALSE)
    \/ \E n \in 1..MaxMessages : handle_message_reply(n)
    \/ \E user \in Callers : start(user, FALSE)
    \/ \E user \in Callers : history(user, FALSE, FALSE)
    \/ \E user \in Callers : stats(user, FALSE, "none")
    \/ \E user \in Callers, args \in MoodArgs : mood(user, args, FALSE, FALSE)
    \/ \E user \in Callers : moodstats(user, FALSE, "none")

SoundSpec == Init /\ [][SoundNext]_vars

(***************************************************************************)
(* The whole program.                                                      *)
(***************************************************************************)
Next == ChatNext \/ CommandNext

Spec == Init /\ [][Next]_vars

(***************************************************************************)
(* What the checks below read off a state.                                 *)
(***************************************************************************)
\* the text messages whose handler has come to its reply_text: in flight
\* there, or the one answered last
Handled ==
    { [ arr |-> n, user |-> tasks[n].user, user_message |-> tasks[n].user_message,
        response_text |-> tasks[n].response_text,
        generated |-> tasks[n].generated, saved |-> tasks[n].saved,
        saved_at |-> tasks[n].saved_at ] :
      n \in { m \in DOMAIN tasks : tasks[m].pc = "reply" } }
    \cup
    ( IF last_reply.kind = "message"
      THEN { [ arr |-> last_reply.arr, user |-> last_reply.to,
               user_message |-> last_reply.user_message,
               response_text |-> last_reply.body,
               generated |-> last_reply.generated, saved |-> last_reply.saved,
               saved_at |-> last_reply.saved_at ] }
      ELSE {} )

\* the chat_history rows written for text message n
RowsOf(n) == { i \in DOMAIN chat_history : chat_arr[i] = n }

\* the exchanges added to a context for text message n
ExchangesOf(n) ==
    { << ref, k >> \in (DOMAIN heap) \X (1..MaxMessages) :
         k \in DOMAIN ctx_arr[ref] /\ ctx_arr[ref][k] = n }

Human(x) == heap[x[1]][2 * x[2] - 1]

Ai(x) == heap[x[1]][2 * x[2]]

(***************************************************************************)
(* C1 as stated: every handled text message has a non-empty reply, exactly *)
(* one exchange ending in that reply in the user's context and exactly one *)
(* chat_history row with it, and the reply of a failed generation is the   *)
(* fallback apology.                                                       *)
(***************************************************************************)
C1_AsStated ==
    \A h \in Handled :
       /\ h.response_text # ""
       /\ ~ h.generated => h.response_text = Fallback
       /\ Cardinality(RowsOf(h.arr)) = 1
       /\ \A i \in RowsOf(h.arr) : chat_history[i].response = h.response_text
       /\ Cardinality(ExchangesOf(h.arr)) = 1
       /\ \A x \in ExchangesOf(h.arr) : Ai(x).content = h.response_text

(***************************************************************************)
(* C1, amended: every handled text message has a reply, the generated text *)
(* or, when generation raised, the fallback apology.  It has exactly one   *)
(* chat_history row (the user's id, the literal input, that reply) unless  *)
(* the save_chat write failed, and then none.  It has exactly one exchange *)
(* (the persona-framed input, the reply) in the user's registered context  *)
(* when generation succeeded, and none when it raised.                     *)
(***************************************************************************)
C1_RespondTotal ==
    \A h \in Handled :
       /\ h.response_text # ""
       /\ IF h.generated THEN h.response_text \in GenTexts
                         ELSE h.response_text = Fallback
       /\ Cardinality(RowsOf(h.arr)) = (IF h.saved THEN 1 ELSE 0)
       /\ \A i \in RowsOf(h.arr) :
             /\ chat_history[i].user_id = h.user.id
             /\ chat_history[i].message = h.user_message
             /\ chat_history[i].response = h.response_text
       /\ Cardinality(ExchangesOf(h.arr)) = (IF h.generated THEN 1 ELSE 0)
       /\ \A x \in ExchangesOf(h.arr) :
             /\ x[1] = user_histories[h.user.id]
             /\ Human(x) = [ type |-> "human",
                             content |-> Persona \o h.user_message ]
             /\ Ai(x) = [ type |-> "ai", content |-> h.response_text ]

\* a message whose generation raised has been answered with the fallback,
\* and the fallback is in its row
C1_Witness ==
    \E h \in Handled :
       /\ ~ h.generated
       /\ h.saved
       /\ last_reply.kind = "message" /\ last_reply.arr = h.arr
       /\ \E i \in RowsOf(h.arr) : chat_history[i].response = Fallback

(***************************************************************************)
(* C2: the registry holds one context per user.  No two users share a      *)
(* context, every context ever created is the registered one of some user  *)
(* (none is created but on a first reference, none is lost), a handler     *)
(* holds the registered context of its user, and the exchange a handler    *)
(* added is in the context a lookup for its user gives; and a step never   *)
(* removes a user from the registry nor binds it to another context, and   *)
(* only extends the messages of a context.                                 *)
(***************************************************************************)
RegistryOneContextPerUser ==
    /\ \A u \in DOMAIN user_histories, v \in DOMAIN user_histories :
          user_histories[u] = user_histories[v] => u = v
    /\ { user_histories[u] : u \in DOMAIN user_histories } = DOMAIN heap
    /\ \A n \in DOMAIN tasks :
          tasks[n].history # 0 =>
             /\ tasks[n].user.id \in DOMAIN user_histories
             /\ user_histories[tasks[n].user.id] = tasks[n].history
    /\ \A h \in Handled :
          h.generated =>
             \E k \in DOMAIN ctx_arr[user_histories[h.user.id]] :
                ctx_arr[user_histories[h.user.id]][k] = h.arr

RegistryKeepsContexts ==
    /\ \A u \in DOMAIN user_histories :
          /\ u \in DOMAIN user_histories'
          /\ user_histories'[u] = user_histories[u]
    /\ \A ref \in DOMAIN heap :
          /\ ref \in DOMAIN heap'
          /\ Len(heap'[ref]) >= Len(heap[ref])
          /\ SubSeq(heap'[ref], 1, Len(heap[ref])) = heap[ref]

C2_OneContextPerUser ==
    [] RegistryOneContextPerUser /\ [][RegistryKeepsContexts]_vars

\* two text messages of one user have both been added to one context
C2_Witness ==
    \E u \in DOMAIN user_histories :
       /\ Len(ctx_arr[user_histories[u]]) = 2
       /\ Len(heap[user_histories[u]]) = 4

(***************************************************************************)
(* The rows of a user, by position in rowid order.                         *)
(***************************************************************************)
Min2(a, b) == IF a <= b THEN a ELSE b

ChatIdx(u) == { i \in DOMAIN chat_history : chat_history[i].user_id = u }

MoodIdx(u) == { i \in DOMAIN moods : moods[i].user_id = u }

\* the position among idx, oldest first, of the row with rowid id
Rank(tbl, idx, id) == Cardinality({ j \in idx : tbl[j].id <= id })

Limits == 1..(HistoryLimit + 1)

(***************************************************************************)
(* C3: when the read does not fail, lastChatTurns(U, k) is the last        *)
(* min(n, k) of U's n turns, oldest first: it has min(n, k) entries (none  *)
(* when n = 0) and its j-th entry is the message, response and timestamp   *)
(* of the turn of U that is (n - min(n, k) + j)-th in rowid order, for     *)
(* every user, every limit k >= 1 and any interleaving with the turns of   *)
(* other users; and the history request answers with that sequence for     *)
(* k = 5.                                                                  *)
(***************************************************************************)
IsLastTurns(res, u, k) ==
    LET n == Cardinality(ChatIdx(u))
        m == Min2(n, k)
    IN  /\ Len(res) = m
        /\ \A j \in 1..m :
              \E i \in ChatIdx(u) :
                 /\ Rank(chat_history, ChatIdx(u), chat_history[i].id) = n - m + j
                 /\ res[j] = << chat_history[i].message, chat_history[i].response,
                                chat_history[i].timestamp >>

C3_LastChatTurns ==
    /\ \A u \in UserIds, k \in Limits :
          IsLastTurns(get_last_chats(chat_history, u, k, FALSE), u, k)
    /\ (last_reply.kind = "history" /\ ~ last_reply.err) =>
          IsLastTurns(last_reply.body, last_reply.to.id, HistoryLimit)
    /\ (last_reply.kind = "no_history" /\ ~ last_reply.err) =>
          ChatIdx(last_reply.to.id) = {}

\* a user with turns T1..T7, another user's turn among them, has asked for
\* the history and got T3..T7
C3_Witness ==
    /\ last_reply.kind = "history"
    /\ Len(chat_history) = 8
    /\ Cardinality(ChatIdx(last_reply.to.id)) = 7
    /\ chat_history[4].user_id # last_reply.to.id
    /\ Len(last_reply.body) = 5
    /\ last_reply.body[1] = << chat_history[3].message, chat_history[3].response,
                               chat_history[3].timestamp >>
    /\ last_reply.body[5] = << chat_history[8].message, chat_history[8].response,
                               chat_history[8].timestamp >>
    /\ chat_history[3].timestamp # chat_history[8].timestamp

(***************************************************************************)
(* C4 as stated: chatActivityStats is (0, 0, 0.0) without turns,           *)
(* (1, 1, 1.0) with one turn, and (4, 2, 2.0) with four turns whose        *)
(* earliest and latest timestamps lie on two consecutive calendar days,    *)
(* whatever the times of day.                                              *)
(***************************************************************************)
Times(u) == { fromisoformat(chat_history[i].timestamp) : i \in ChatIdx(u) }

Earliest(u) == CHOOSE t \in Times(u) : \A x \in Times(u) : t <= x

Latest(u) == CHOOSE t \in Times(u) : \A x \in Times(u) : x <= t

CalendarDays(u) ==
    (Latest(u) \div TicksPerDay) - (Earliest(u) \div TicksPerDay) + 1

C4_AsStated ==
    (last_reply.kind = "stats" /\ last_reply.err = "none") =>
       LET n == Cardinality(ChatIdx(last_reply.to.id))
       IN  /\ n = 0 => last_reply.body = << 0, 0, << 0, 1 >> >>
           /\ n = 1 => last_reply.body = << 1, 1, << 1, 1 >> >>
           /\ (n = 4 /\ CalendarDays(last_reply.to.id) = 2) =>
                 last_reply.body = << 4, 2, << 2, 1 >> >>

(***************************************************************************)
(* C4, amended: when the read does not fail, chatActivityStats is          *)
(* (0, 0, 0.0) without turns and (1, 1, 1.0) with one turn; with n >= 1    *)
(* turns totalMessages is n, daysActive is one more than the number of     *)
(* whole 24-hour periods that fit between the earliest and the latest      *)
(* timestamp, and averagePerDay is n / daysActive.  Four turns give        *)
(* (4, 2, 2.0) exactly when the latest is at least 24 and less than 48     *)
(* hours after the earliest; the stats request answers with these values.  *)
(***************************************************************************)
WholeDaysElapsed(u) ==
    CHOOSE e \in 0..(Latest(u) - Earliest(u)) :
       /\ e * TicksPerDay <= Latest(u) - Earliest(u)
       /\ Latest(u) - Earliest(u) < (e + 1) * TicksPerDay

IsActivityStats(res, u) ==
    LET n == Cardinality(ChatIdx(u))
    IN  /\ n = 0 => res = << 0, 0, << 0, 1 >> >>
        /\ n = 1 => res = << 1, 1, << 1, 1 >> >>
        /\ n >= 1 =>
              /\ res[1] = n
              /\ res[2] = WholeDaysElapsed(u) + 1
              /\ res[3][2] > 0
              /\ res[3][1] * res[2] = n * res[3][2]
        /\ n = 4 =>
              ( res = << 4, 2, << 2, 1 >> >> <=>
                   /\ TicksPerDay <= Latest(u) - Earliest(u)
                   /\ Latest(u) - Earliest(u) < 2 * TicksPerDay )

C4_ActivityStats ==
    /\ \A u \in UserIds : IsActivityStats(get_user_stats(chat_history, u, "none"), u)
    /\ (last_reply.kind = "stats" /\ last_reply.err = "none") =>
          IsActivityStats(last_reply.body, last_reply.to.id)

\* a user with four turns over two calendar days, more than 24 hours apart,
\* has asked for the stats and got (4, 2, 2.0)
C4_Witness ==
    /\ last_reply.kind = "stats"
    /\ last_reply.err = "none"
    /\ Cardinality(ChatIdx(last_reply.to.id)) = 4
    /\ CalendarDays(last_reply.to.id) = 2
    /\ last_reply.body = << 4, 2, << 2, 1 >> >>

(***************************************************************************)
(* C5: whichever statement of a store operation raises, the operation      *)
(* returns its empty result: lastChatTurns the empty sequence,             *)
(* chatActivityStats (0, 0, 0.0), moodStats (empty, empty).                *)
(***************************************************************************)
C5_FailureReturnsEmpty ==
    /\ (last_reply.kind \in { "history", "no_history" } /\ last_reply.err) =>
          last_reply.kind = "no_history"
    /\ (last_reply.kind = "stats" /\ last_reply.err # "none") =>
          last_reply.body = << 0, 0, << 0, 1 >> >>
    /\ (last_reply.kind \in { "moodstats", "no_moods" } /\ last_reply.err # "none") =>
          last_reply.kind = "no_moods"

(***************************************************************************)
(* C8: when the read does not fail, moodStats(U) has exactly one frequency *)
(* entry for every distinct label U recorded, compared character by        *)
(* character, whose count is the number of U's entries with exactly that   *)
(* label, and no other entry; its recent entries are the last min(n, 5) of *)
(* U's n mood entries in rowid order, oldest first; the mood-stats request *)
(* answers with these.                                                     *)
(***************************************************************************)
IsMoodStats(res, u) ==
    LET n == Cardinality(MoodIdx(u))
        m == Min2(n, RecentMoods)
        labels == { moods[i].mood : i \in MoodIdx(u) }
    IN  /\ \A p \in res[1] : p[1] \in labels
        /\ \A L \in labels :
              /\ Cardinality({ p \in res[1] : p[1] = L }) = 1
              /\ \A p \in res[1] :
                    p[1] = L => p[2] = Cardinality({ i \in MoodIdx(u) : moods[i].mood = L })
        /\ Len(res[2]) = m
        /\ \A j \in 1..m :
              \E i \in MoodIdx(u) :
                 /\ Rank(moods, MoodIdx(u), moods[i].id) = n - m + j
                 /\ res[2][j] = << moods[i].mood, moods[i].timestamp >>

C8_MoodStats ==
    /\ \A u \in UserIds : IsMoodStats(get_mood_stats(moods, u, "none"), u)
    /\ (last_reply.kind = "moodstats" /\ last_reply.err = "none") =>
          IsMoodStats(last_reply.body, last_reply.to.id)

\* a user who recorded "H" and then "h" has asked for the mood stats and got
\* two frequency entries of count 1
C8_Witness ==
    /\ last_reply.kind = "moodstats"
    /\ last_reply.err = "none"
    /\ Cardinality(MoodIdx(last_reply.to.id)) = 2
    /\ \E i \in MoodIdx(last_reply.to.id), j \in MoodIdx(last_reply.to.id) :
          i < j /\ moods[i].mood = <<"H">> /\ moods[j].mood = <<"h">>
    /\ last_reply.body[1] = { << <<"H">>, 1 >>, << <<"h">>, 1 >> }
    /\ Len(last_reply.body[2]) = 2

\* a user with six mood entries has asked for the mood stats and got the
\* last five
C8_WitnessRecent ==
    /\ last_reply.kind = "moodstats"
    /\ last_reply.err = "none"
    /\ Cardinality(MoodIdx(last_reply.to.id)) = 6
    /\ Len(last_reply.body[2]) = 5

(***************************************************************************)
(* C6: recordUser is idempotent and the first write wins.  The users table *)
(* never holds two rows of one identifier, and a step changes the table    *)
(* only by adding the row of a user whose identifier had none: a request   *)
(* of a user already recorded leaves the table as it was, whatever the     *)
(* display attributes it comes with.  (In CommandSpec every step but Tick  *)
(* is a request of the user last_reply' names.)                            *)
(***************************************************************************)
UsersKeyed ==
    \A r \in users, q \in users : r.user_id = q.user_id => r = q

UsersFirstWriteWins ==
    users' # users =>
       /\ ~ \E r \in users : r.user_id = last_reply'.to.id
       /\ last_reply'.user_saved
       /\ users' = users \cup { UserRow(last_reply'.to) }

C7_RoundTrip ==
    \A u \in UserIds :
       LET n == Cardinality(ChatIdx(u))
       IN  \A limit \in { Max2(n, 1), n + 1, n + HistoryLimit } :
              LET res == get_last_chats(chat_history, u, limit, FALSE)
              IN  /\ Len(res) = n
                  /\ \A i \in ChatIdx(u) :
                        res[Rank(chat_history, ChatIdx(u), chat_history[i].id)] =
                           << chat_history[i].message, chat_history[i].response,
                              chat_history[i].timestamp >>
                  /\ \A h \in Handled :
                        (h.saved /\ h.user.id = u) =>
                           \E i \in RowsOf(h.arr) :
                              LET e == res[Rank(chat_history, ChatIdx(u),
                                                chat_history[i].id)]
                              IN  /\ e = << h.user_message, h.response_text,
                                            isoformat(h.saved_at) >>
                                  /\ e[1] # Persona \o h.user_message
                                  /\ fromisoformat(e[3]) = h.saved_at

\* a user has two turns with different messages written at different times
C7_Witness ==
    \E h \in Handled :
       /\ h.saved
       /\ Cardinality(ChatIdx(h.user.id)) = 2
       /\ \E i \in ChatIdx(h.user.id), j \in ChatIdx(h.user.id) :
             /\ chat_history[i].message # chat_history[j].message
             /\ chat_history[i].timestamp # chat_history[j].timestamp

(***************************************************************************)
(* C9 as stated: two handle_message handlers of one user that are in       *)
(* flight together can add their turns to the context or to chat_history   *)
(* in an order other than the order of arrival.  TLC checks formulas over  *)
(* all behaviours, so the possibility is written as what it would take for *)
(* it to be realised: once two handlers of one user are in flight          *)
(* together with their turns added, an order mismatch follows.  (That no behaviour at all has a   *)
(* mismatch is the invariant of the amended claim.)                        *)
(***************************************************************************)
InArrivalOrder(s) == \A i \in DOMAIN s, j \in DOMAIN s : i < j => s[i] < s[j]

OrderMismatch ==
    \/ ~ InArrivalOrder(chat_arr)
    \/ \E ref \in DOMAIN ctx_arr : ~ InArrivalOrder(ctx_arr[ref])

TwoInFlight ==
    \E n \in DOMAIN tasks, m \in DOMAIN tasks :
       /\ n # m /\ tasks[n].user.id = tasks[m].user.id
       /\ tasks[n].generated /\ tasks[n].saved
       /\ tasks[m].generated /\ tasks[m].saved

Answered(n) == last_reply.kind = "message" /\ last_reply.arr = n

EveryMessageAnswered ==
    \A n \in 1..MaxMessages : (n \in DOMAIN tasks) ~> Answered(n)

ReplyIsLogged ==
    last_reply.kind = "message" =>
       IF last_reply.saved
       THEN /\ Cardinality(RowsOf(last_reply.arr)) = 1
            /\ \A i \in RowsOf(last_reply.arr) :
                  /\ chat_history[i].user_id = last_reply.to.id
                  /\ chat_history[i].message = last_reply.user_message
                  /\ chat_history[i].response = last_reply.body
       ELSE RowsOf(last_reply.arr) = {}

Request == now' = now

MoodKinds == { "mood_recorded", "mood_missing", "mood_usage" }

MoodRequest == Request /\ last_reply'.kind \in MoodKinds

Blank(s) == \A i \in DOMAIN s : s[i] = " "

MoodText(args) == Join(args)

(***************************************************************************)
(* C11 as stated: a /mood request whose text is absent, empty or blank     *)
(* appends nothing and is answered by a guidance message; any other /mood  *)
(* request appends exactly one moods row of that user whose label is the   *)
(* trimmed text.                                                           *)
(***************************************************************************)
C11_AsStatedStep ==
    MoodRequest =>
       LET args == last_reply'.args
       IN  IF Blank(MoodText(args))
           THEN /\ moods' = moods
                /\ last_reply'.kind \in { "mood_missing", "mood_usage" }
           ELSE /\ Len(moods') = Len(moods) + 1
                /\ moods'[Len(moods')].user_id = last_reply'.to.id
                /\ moods'[Len(moods')].mood = Strip(MoodText(args))

C11_AsStated == [][C11_AsStatedStep]_vars

(***************************************************************************)
(* C11, amended: a /mood request whose text is absent, empty or blank      *)
(* appends nothing and is answered by a guidance message.  Any other /mood *)
(* request is answered by the confirmation that quotes the trimmed text,   *)
(* and appends exactly one moods row of that user, after all earlier rows  *)
(* and with that trimmed text (not blank, no space at either end, letter   *)
(* case kept) as its label, when the save_mood write does not fail; when   *)
(* the write fails nothing is appended and the confirmation is sent all    *)
(* the same.                                                               *)
(***************************************************************************)
C11_MoodStep ==
    MoodRequest =>
       LET args  == last_reply'.args
           label == Strip(MoodText(args))
       IN  IF Blank(MoodText(args))
           THEN /\ moods' = moods
                /\ last_reply'.kind \in { "mood_missing", "mood_usage" }
                /\ args = <<>> <=> last_reply'.kind = "mood_usage"
           ELSE /\ last_reply'.kind = "mood_recorded"
                /\ last_reply'.body = label
                /\ label # <<>> /\ label[1] # " " /\ label[Len(label)] # " "
                /\ Len(args) = 1 => label = args[1]
                /\ IF last_reply'.saved
                   THEN /\ Len(moods') = Len(moods) + 1
                        /\ SubSeq(moods', 1, Len(moods)) = moods
                        /\ moods'[Len(moods')].user_id = last_reply'.to.id
                        /\ moods'[Len(moods')].mood = label
                        /\ moods'[Len(moods')].timestamp = isoformat(now)
                   ELSE moods' = moods

C11_MoodValidation == [][C11_MoodStep]_vars

\* both cases have happened: a mood of two words is in the table and the
\* last request, a /mood without text, got the usage message
C11_Witness ==
    /\ last_reply.kind = "mood_usage"
    /\ \E i \in DOMAIN moods : moods[i].mood = << "h", " ", "H" >>

(***************************************************************************)
(* C12: the chat_history and moods logs are append-only.  Every step keeps *)
(* each row of either table as it was and at its place, the rows it adds   *)
(* come after them with an id greater than every id the table held, and in *)
(* every state the ids of a table increase along it.                       *)
(***************************************************************************)
KeepsRows(tbl, tbl2) ==
    /\ Len(tbl2) >= Len(tbl)
    /\ \A i \in DOMAIN tbl : tbl2[i] = tbl[i]
    /\ \A j \in (DOMAIN tbl2) \ (DOMAIN tbl) :
          \A i \in DOMAIN tbl : tbl2[j].id > tbl[i].id

IdsIncrease(tbl) ==
    \A i \in DOMAIN tbl, j \in DOMAIN tbl : i < j => tbl[i].id < tbl[j].id

AppendOnlyStep ==
    /\ KeepsRows(chat_history, chat_history')
    /\ KeepsRows(moods, moods')

Holding == { n \in DOMAIN tasks : tasks[n].history # 0 }

RegistrySafe ==
    /\ \A n \in Holding :
          /\ tasks[n].history \in DOMAIN heap
          /\ tasks[n].user.id \in DOMAIN user_histories
          /\ user_histories[tasks[n].user.id] = tasks[n].history
    /\ \A n \in Holding, m \in Holding :
          tasks[n].history = tasks[m].history <=> tasks[n].user.id = tasks[m].user.id
    /\ Cardinality(DOMAIN user_histories) = Len(heap)
    /\ \A h \in Handled : h.user.id \in DOMAIN user_histories

FirstAccessStep ==
    IF Len(heap') # Len(heap)
    THEN /\ Len(heap') = Len(heap) + 1
         /\ heap'[Len(heap')] = <<>>
         /\ \E u \in UserIds \ DOMAIN user_histories :
               /\ DOMAIN user_histories' = DOMAIN user_histories \cup {u}
               /\ user_histories'[u] = Len(heap')
         /\ \A v \in DOMAIN user_histories : user_histories'[v] = user_histories[v]
    ELSE user_histories' = user_histories

EndsRegistered ==
    \A u \in UserIds :
       (\E n \in DOMAIN tasks : tasks[n].user.id = u) ~> (u \in DOMAIN user_histories)

C13_ConcurrentFirstAccess ==
    /\ [] RegistrySafe
    /\ [][FirstAccessStep]_vars
    /\ EndsRegistered

\* two handlers in flight together made the first references to two
\* different users, and each holds its own registered context
C13_Witness ==
    /\ Holding = { 1, 2 }
    /\ tasks[1].user.id # tasks[2].user.id
    /\ tasks[1].history # tasks[2].history
    /\ Len(heap) = 2

\* two handlers of one user are in flight together and hold one context
C13_WitnessSameUser ==
    /\ Holding = { 1, 2 }
    /\ tasks[1].user.id = tasks[2].user.id
    /\ tasks[1].history = tasks[2].history
    /\ Len(heap) = 1

(***************************************************************************)
(* C14: the queries are read-only on the logs.  In BotSpec a step that     *)
(* changes neither the clock nor a handle_message coroutine is one command *)
(* request, answered by last_reply'.  A /history, /stats or /moodstats     *)
(* request leaves chat_history, moods, the registry and every context as   *)
(* they were, and changes the users table at most by inserting the row of  *)
(* the requesting user when its identifier had none.                       *)
(***************************************************************************)
CommandRequest == tasks' = tasks /\ now' = now

QueryKinds == { "history", "no_history", "stats", "moodstats", "no_moods" }

QueryStep ==
    (CommandRequest /\ last_reply'.kind \in QueryKinds) =>
       /\ chat_history' = chat_history
       /\ moods' = moods
       /\ user_histories' = user_histories
       /\ heap' = heap
       /\ users' = IF \E r \in users : r.user_id = last_reply'.to.id
                   THEN users
                   ELSE users \cup { UserRow(last_reply'.to) }

C14_QueriesReadOnly == [][QueryStep]_vars

\* a query has been served for a user who owns nothing but its users row,
\* while the logs and a context hold what another user wrote
C14_Witness ==
    /\ last_reply.kind \in QueryKinds
    /\ \E r \in users : r.user_id = last_reply.to.id
    /\ last_reply.to.id \notin DOMAIN user_histories
    /\ \A i \in DOMAIN chat_history : chat_history[i].user_id # last_reply.to.id
    /\ \A i \in DOMAIN moods : moods[i].user_id # last_reply.to.id
    /\ chat_history # <<>>
    /\ moods # <<>>
    /\ \E ref \in DOMAIN heap : heap[ref] # <<>>

\* a query has been answered with the rows of the user who asked
C14_WitnessOwnRows ==
    /\ last_reply.kind = "history"
    /\ moods # <<>>
    /\ \E ref \in DOMAIN heap : heap[ref] # <<>>

(***************************************************************************)
(* C15: per-user isolation.  Actors is the user a step works for: the user *)
(* of the handle_message coroutine that was started, advanced or finished, *)
(* or the user of the command served.  A step changes, for every other     *)
(* user U, neither whether U is registered, nor U's context and its        *)
(* messages, nor the value of lastChatTurns(U, k), chatActivityStats(U) or *)
(* moodStats(U) (which a step that leaves the table alone cannot change);  *)
(* and a query is answered from the rows of the user who asked: as many    *)
(* turns as that user owns (at most the limit), each the content of one of *)
(* its rows, its own count of turns, and counts that add up to its own     *)
(* number of moods.                                                        *)
(***************************************************************************)
Actors ==
    IF tasks' # tasks
    THEN { tasks'[n].user.id :
              n \in { m \in DOMAIN tasks' : m \notin DOMAIN tasks \/ tasks'[m] # tasks[m] } }
         \cup { tasks[n].user.id : n \in (DOMAIN tasks) \ (DOMAIN tasks') }
    ELSE IF now' = now THEN { last_reply'.to.id } ELSE {}

IsolationLimits == { 1, HistoryLimit }

OthersUntouched ==
    \A u \in UserIds \ Actors :
       /\ u \in DOMAIN user_histories <=> u \in DOMAIN user_histories'
       /\ u \in DOMAIN user_histories =>
             /\ user_histories'[u] = user_histories[u]
             /\ heap'[user_histories'[u]] = heap[user_histories[u]]
       /\ \/ chat_history' = chat_history
          \/ /\ \A k \in IsolationLimits :
                   get_last_chats(chat_history', u, k, FALSE) =
                      get_last_chats(chat_history, u, k, FALSE)
             /\ get_user_stats(chat_history', u, "none") =
                   get_user_stats(chat_history, u, "none")
       /\ \/ moods' = moods
          \/ get_mood_stats(moods', u, "none") = get_mood_stats(moods, u, "none")

ReadSucceeded(reply) ==
    IF reply.kind \in { "history", "no_history" } THEN ~ reply.err
    ELSE reply.err = "none"

RECURSIVE SumCounts(_)
SumCounts(pairs) ==
    IF pairs = {} THEN 0
    ELSE LET p == CHOOSE q \in pairs : TRUE
         IN  p[2] + SumCounts(pairs \ {p})

AnsweredFromOwnRows ==
    (tasks' = tasks /\ now' = now /\ last_reply'.kind \in { "history", "stats", "moodstats" }
       /\ ReadSucceeded(last_reply')) =>
       LET u == last_reply'.to.id
           body == last_reply'.body
       IN  CASE last_reply'.kind = "history" ->
                  /\ Len(body) = Min2(Cardinality(ChatIdx(u)), HistoryLimit)
                  /\ \A j \in DOMAIN body :
                        \E i \in ChatIdx(u) :
                           body[j] = << chat_history[i].message, chat_history[i].response,
                                        chat_history[i].timestamp >>
             [] last_reply'.kind = "stats" -> body[1] = Cardinality(ChatIdx(u))
             [] OTHER ->
                  /\ SumCounts(body[1]) = Cardinality(MoodIdx(u))
                  /\ \A p \in body[1] : \E i \in MoodIdx(u) : moods[i].mood = p[1]
                  /\ Len(body[2]) = Min2(Cardinality(MoodIdx(u)), RecentMoods)

C15_PerUserIsolation == [][OthersUntouched /\ AnsweredFromOwnRows]_vars

\* a text message of one user has been answered, its turn in the log and in
\* its context, while another user has a context with messages, a turn and
\* a mood
C15_Witness ==
    /\ last_reply.kind = "message"
    /\ last_reply.saved /\ last_reply.generated
    /\ \E u \in UserIds \ { last_reply.to.id } :
          /\ ChatIdx(u) # {}
          /\ MoodIdx(u) # {}
          /\ u \in DOMAIN user_histories
          /\ heap[user_histories[u]] # <<>>

\* a query of one user has been answered while only the other user owns
\* rows
C15_WitnessQuery ==
    /\ last_reply.kind \in { "no_history", "stats", "no_moods" }
    /\ ReadSucceeded(last_reply)
    /\ ChatIdx(last_reply.to.id) = {} /\ MoodIdx(last_reply.to.id) = {}
    /\ chat_history # <<>> /\ moods # <<>>

(***************************************************************************)
(* C16: referential integrity by ordering.  While no write of the store    *)
(* has failed, every chat_history row and every moods row is owned by a    *)
(* user id that has a users row, and so is every handle_message coroutine  *)
(* in flight: the handler recorded its user before anything else.          *)
(***************************************************************************)
Recorded(user_id) == \E r \in users : r.user_id = user_id

C16_ReferentialIntegrity ==
    /\ \A i \in DOMAIN chat_history : Recorded(chat_history[i].user_id)
    /\ \A i \in DOMAIN moods : Recorded(moods[i].user_id)
    /\ \A n \in DOMAIN tasks : Recorded(tasks[n].user.id)

\* one user owns a turn and another a mood, and both are recorded
C16_Witness ==
    \E i \in DOMAIN chat_history, j \in DOMAIN moods :
       /\ chat_history[i].user_id # moods[j].user_id
       /\ Recorded(chat_history[i].user_id)
       /\ Recorded(moods[j].user_id)

====
